---- MODULE Spec2Model ----
(***************************************************************************)
(* The candidacy graph service: the graph builder (POST /build-graph), the *)
(* cycle finder (POST /graph/chains) and the summary projections, over a   *)
(* property-graph store of Person nodes and CANDIDATO_A relationships.     *)
(*                                                                         *)
(* Two revisions of the service are modelled.  rev = "server" is           *)
(* src/server.js (reset and repopulation in one writeTransaction; the      *)
(* first revision of src/unnamed/part_000, lines 99-147, has the same      *)
(* handler body).  rev = "legacy" is the second revision of                *)
(* src/unnamed/part_000 (lines 278-343): every statement is its own        *)
(* auto-commit session.run.                                                *)
(*                                                                         *)
(* Spec takes the requests one after another, each handler as one step.    *)
(* SpecChains answers chains requests on a range of built graphs.          *)
(* SpecConc runs the handlers of several requests statement by statement,  *)
(* and SpecReady runs them against a store that cannot be reached.         *)
(* SpecAuth puts the authorisation middleware in front of each handler,    *)
(* and SpecReorder is the reorder-applications route of src/server.js.     *)
(*                                                                         *)
(* Strings are modelled by character codes: a person id or a display name  *)
(* is a one-character string, written as its code (a positive integer).    *)
(* A nullable value is a set: Null is {} and a present value v is {v}.     *)
(***************************************************************************)
EXTENDS Integers, Sequences, FiniteSets, TLC

VARIABLES
    rev,        \* the deployed revision: "server" or "legacy"
    graph,      \* the committed content of the graph store
    last,       \* the request answered last: its input and its response
    reqs,       \* the requests in progress, statement by statement
    up,         \* whether the graph store is reachable
    auth,       \* the credentials of the request seen last and what the
                \* authorisation middleware made of them
    priorities, \* the priority column of the applications table
    reorder     \* the reorder-applications request answered last

vars == <<rev, graph, last, reqs, up, auth, priorities, reorder>>

(***************************************************************************)
(* Bounds of the model.                                                    *)
(***************************************************************************)
NumIds == 2         \* person ids are 1..NumIds
MaxApps == 2        \* longest applications list of a build request
MaxPrio == 1        \* priorities are 1..MaxPrio, or null
MaxReqs == 2        \* requests in progress at the same time
MaxConcApps == 1    \* longest applications list of a build request in progress
NumUsers == 2       \* users known to the identity service are 1..NumUsers
NumAppRows == 2     \* rows of the applications table are 1..NumAppRows
MaxNewPrio == 2     \* priorities of a reorder request are 1..MaxNewPrio
MaxUpdates == 2     \* longest updates list of a reorder request

(***************************************************************************)
(* Values.                                                                 *)
(***************************************************************************)
Null == {}
Some(v) == {v}
Val(o) == CHOOSE v \in o : TRUE
\* Cypher coalesce(a, b)
coalesce(a, b) == IF a # Null THEN a ELSE b

Ids == 1..NumIds
Names == {NumIds + 1}           \* display names, none of them an id
Prios == 1..MaxPrio
Opt(S) == {Null} \cup {Some(v) : v \in S}

\* An application record of the request body.  A record that lacks user_id
\* or target_user_id carries Null there.
ValidRecords == [user_id : {Some(i) : i \in Ids},
                 target_user_id : {Some(i) : i \in Ids},
                 priority : Opt(Prios)]
InvalidRecords == {r \in [user_id : Opt(Ids), target_user_id : Opt(Ids),
                          priority : {Null}] :
                       r.user_id = Null \/ r.target_user_id = Null}
ApplicationRecords == ValidRecords \cup InvalidRecords

RECURSIVE SeqsUpTo(_, _)
SeqsUpTo(S, n) ==
    IF n = 0 THEN {<<>>}
    ELSE LET shorter == SeqsUpTo(S, n - 1)
         IN  shorter \cup {Append(s, x) : s \in {t \in shorter : Len(t) = n - 1}, x \in S}

\* The `applications` value of a request body: a list, absent (undefined or
\* null), an object that is not a list, or a scalar (string, number).
Body(kind, items) == [kind |-> kind, items |-> items]
ListBodies == {Body("list", s) : s \in SeqsUpTo(ApplicationRecords, MaxApps)}
NonListBodies == {Body("absent", <<>>), Body("scalar", <<>>)}
                     \cup {Body("object", <<r>>) : r \in ApplicationRecords}
Bodies == ListBodies \cup NonListBodies

\* The `usersById` value of a request body: id -> name, Null where the id
\* has no entry.  The bodies drawn name the first id or nobody.
NameMaps == {m \in [Ids -> Opt(Names)] : \A i \in Ids : m[i] # Null => i = 1}

(***************************************************************************)
(* The graph store.  Nodes and relationships are kept in creation order;   *)
(* a relationship names its end nodes by their position in `nodes`.        *)
(***************************************************************************)
EmptyGraph == [nodes |-> <<>>, rels |-> <<>>]

NodesWithId(g, id) == {k \in 1..Len(g.nodes) : g.nodes[k].id = id}
RelsBetween(g, a, b) == {k \in 1..Len(g.rels) : g.rels[k].from = a /\ g.rels[k].to = b}

\* A delete of the relationships alone: MATCH ()-[r]->() DELETE r
DeleteRelsOnly(g) == [g EXCEPT !.rels = <<>>]

\* MATCH (n) DETACH DELETE n
DetachDeleteAll(g) == EmptyGraph

\* SET a.full_name = coalesce(name, a.full_name) on every node with the id.
RECURSIVE SetFullName(_, _, _)
SetFullName(nodes, id, name) ==
    IF nodes = <<>> THEN <<>>
    ELSE <<IF Head(nodes).id = id
           THEN [Head(nodes) EXCEPT !.full_name = coalesce(name, @)]
           ELSE Head(nodes)>> \o SetFullName(Tail(nodes), id, name)

\* MERGE (a:Person {id: id})  SET a.full_name = coalesce($usersById[id], a.full_name)
\* A created node has no full_name, which the SET then fills from usersById.
MergePerson(g, id, name) ==
    IF NodesWithId(g, id) = {}
    THEN [g EXCEPT !.nodes = Append(@, [id |-> id, full_name |-> coalesce(name, Null)])]
    ELSE [g EXCEPT !.nodes = SetFullName(@, id, name)]

\* CREATE (a)-[r:CANDIDATO_A]->(b) in place of the MERGE
CreateRel(g, a, b, priority) ==
    [g EXCEPT !.rels = Append(@, [from |-> a, to |-> b, priority |-> priority])]

\* SET r.priority = priority on every relationship from a to b.
RECURSIVE SetPriority(_, _, _, _)
SetPriority(rels, a, b, priority) ==
    IF rels = <<>> THEN <<>>
    ELSE <<IF Head(rels).from = a /\ Head(rels).to = b
           THEN [Head(rels) EXCEPT !.priority = priority]
           ELSE Head(rels)>> \o SetPriority(Tail(rels), a, b, priority)

\* MERGE (a)-[r:CANDIDATO_A]->(b)  SET r.priority = app.priority
\* for one bound pair of nodes (a, b).
MergeRel(g, a, b, priority) ==
    IF RelsBetween(g, a, b) = {}
    THEN [g EXCEPT !.rels = Append(@, [from |-> a, to |-> b, priority |-> priority])]
    ELSE [g EXCEPT !.rels = SetPriority(@, a, b, priority)]

\* The relationship MERGE runs once per row, that is once per pair of a node
\* bound to a and a node bound to b.
RECURSIVE MergeRelRows(_, _, _)
MergeRelRows(g, rows, priority) ==
    IF rows = {} THEN g
    ELSE LET row == CHOOSE r \in rows : \A q \in rows :
                        r[1] < q[1] \/ (r[1] = q[1] /\ r[2] <= q[2])
         IN  MergeRelRows(MergeRel(g, row[1], row[2], priority), rows \ {row}, priority)

\* One row of UNWIND $apps AS app, both ids present.
MergeApp(g, app, usersById) ==
    LET a == Val(app.user_id)
        b == Val(app.target_user_id)
        g1 == MergePerson(g, a, usersById[a])
        g2 == MergePerson(g1, b, usersById[b])
    IN  MergeRelRows(g2, NodesWithId(g2, a) \X NodesWithId(g2, b), app.priority)

\* The UNWIND ... MERGE ... statement over the rows apps[1..k].  MERGE on a
\* null property value raises an error, which fails the statement as a
\* whole; the rows after it are not processed.
RECURSIVE MergeApps(_, _, _, _)
MergeApps(g, apps, usersById, k) ==
    IF k = 0 THEN [ok |-> TRUE, graph |-> g]
    ELSE LET before == MergeApps(g, apps, usersById, k - 1)
             app == apps[k]
         IN  IF ~before.ok THEN before
             ELSE IF app.user_id = Null \/ app.target_user_id = Null
             THEN [ok |-> FALSE, graph |-> before.graph]
             ELSE [ok |-> TRUE, graph |-> MergeApp(before.graph, app, usersById)]

\* MATCH (n:Person) RETURN count(n)
CountNodes(g) == Len(g.nodes)
\* MATCH (:Person)-[r:CANDIDATO_A]->(:Person) RETURN count(r)
CountRels(g) == Len(g.rels)

(***************************************************************************)
(* The cycle finder: POST /graph/chains.                                   *)
(***************************************************************************)
MinHops == 2        \* [rels:CANDIDATO_A*2..10]
MaxHops == 10
Sep == 124          \* the separator "|" of the canonical key

\* coalesce(p.full_name, p.id)
Label(node) == Val(coalesce(node.full_name, Some(node.id)))

Range(s) == {s[i] : i \in 1..Len(s)}

\* nodes(path) for the path that starts at node `start` and follows the
\* relationships `path`.
PathNodes(g, start, path) == <<start>> \o [i \in 1..Len(path) |-> g.rels[path[i]].to]

\* ns[0..-1]: all elements but the last.
ButLast(s) == SubSeq(s, 1, Len(s) - 1)

\* round(x): the nearest integer to num / den, a tie going up.
Round(num, den) == (2 * num + den) \div (2 * den)

RECURSIVE SumPriorities(_, _)
SumPriorities(g, path) ==
    IF path = <<>> THEN 0
    ELSE Val(g.rels[Head(path)].priority) + SumPriorities(g, Tail(path))

\* The average over the priorities that are present: null only when none is
AvgPriorityOfPresent(g, path) ==
    LET present == SelectSeq(path, LAMBDA k : g.rels[k].priority # Null)
    IN  IF present = <<>> THEN Null
        ELSE Some(Round(SumPriorities(g, present) * 100, Len(present)))

\* The CASE expression of the query.  The result is in hundredths: Some(h)
\* is the number h / 100.
AvgPriority(g, path) ==
    IF \E i \in 1..Len(path) : g.rels[path[i]].priority = Null
    THEN Null
    ELSE Some(Round(SumPriorities(g, path) * 100, Len(path)))

\* One row of the RETURN clause.  `persons` (the nodes of the cycle, as
\* positions in the store) is the WITH variable the labels are read from;
\* it is kept beside the returned columns so that properties can speak of
\* the nodes behind the labels.
ChainRow(g, start, path) ==
    LET persons == ButLast(PathNodes(g, start, path))
    IN  [persons |-> persons,
         people |-> [i \in 1..Len(persons) |-> Label(g.nodes[persons[i]])],
         length |-> Len(persons),
         avgPriority |-> AvgPriority(g, path)]

\* The query without its WHERE clause
AnyNodes(g, start, path) == TRUE

\* WHERE size(ns[0..-1]) = size(apoc.coll.toSet(ns[0..-1]))
DistinctNodes(g, start, path) ==
    LET ns == ButLast(PathNodes(g, start, path))
    IN  Len(ns) = Cardinality(Range(ns))

\* The relationships that leave node `at`, in the order in which the store
\* expands relationships.
Out(g, at, order) == SelectSeq(order, LAMBDA k : g.rels[k].from = at)

\* MATCH path = (p:Person)-[rels:CANDIDATO_A*2..10]->(p) from one start node:
\* every walk of 2..10 relationships that uses no relationship twice and
\* ends at its start, in depth-first order.  `path` is the walk so far and
\* `out` the relationships that leave its last node; i is the position in
\* `out`.
RECURSIVE Expand(_, _, _, _, _, _)
Expand(g, start, path, order, out, i) ==
    IF i > Len(out) THEN <<>>
    ELSE LET k == out[i]
             r == g.rels[k]
             longer == Append(path, k)
             here == IF k \notin Range(path)
                     THEN (IF Len(longer) >= MinHops /\ r.to = start
                           THEN <<longer>> ELSE <<>>)
                          \o (IF Len(longer) < MaxHops
                              THEN Expand(g, start, longer, order, Out(g, r.to, order), 1)
                              ELSE <<>>)
                     ELSE <<>>
         IN  here \o Expand(g, start, path, order, out, i + 1)

\* The rows of the query from the start nodes scan[j..], in the order the
\* store produces them.
RECURSIVE MatchRows(_, _, _, _)
MatchRows(g, scan, order, j) ==
    IF j > Len(scan) THEN <<>>
    ELSE LET start == scan[j]
             paths == Expand(g, start, <<>>, order, Out(g, start, order), 1)
             kept == SelectSeq(paths, LAMBDA p : DistinctNodes(g, start, p))
         IN  [i \in 1..Len(kept) |-> ChainRow(g, start, kept[i])]
                 \o MatchRows(g, scan, order, j + 1)

\* people.slice().sort(): ascending by code unit (insertion sort).
RECURSIVE Insert(_, _)
Insert(x, s) ==
    IF s = <<>> THEN <<x>>
    ELSE IF x <= Head(s) THEN <<x>> \o s
    ELSE <<Head(s)>> \o Insert(x, Tail(s))

RECURSIVE Sort(_)
Sort(s) == IF s = <<>> THEN <<>> ELSE Insert(Head(s), Sort(Tail(s)))

\* .join("|")
RECURSIVE Join(_, _)
Join(s, sep) ==
    IF s = <<>> THEN <<>>
    ELSE IF Len(s) = 1 THEN <<Head(s)>>
    ELSE <<Head(s), sep>> \o Join(Tail(s), sep)

\* const key = people.slice().sort().join("|")
Key(people) == Join(Sort(people), Sep)

\* .filter((c) => { if (seen.has(c.key)) return false; seen.add(c.key); return true; })
RECURSIVE Dedup(_, _)
Dedup(rows, seen) ==
    IF rows = <<>> THEN <<>>
    ELSE LET c == Head(rows)
         IN  IF Key(c.people) \in seen
             THEN Dedup(Tail(rows), seen)
             ELSE <<c>> \o Dedup(Tail(rows), seen \cup {Key(c.people)})

\* The chains of the response, for the order in which the store returned
\* the rows.
Chains(g, scan, order) == Dedup(MatchRows(g, scan, order, 1), {})

\* Without ORDER BY the store returns rows in an order of its choosing.  The
\* orders modelled: start nodes scanned in creation order or reversed;
\* relationships expanded in creation order or reversed.
Reverse(s) == [i \in 1..Len(s) |-> s[Len(s) + 1 - i]]
UpTo(n) == [i \in 1..n |-> i]
ScanOrders(g) == {UpTo(Len(g.nodes)), Reverse(UpTo(Len(g.nodes)))}
RelOrders(g) == {UpTo(Len(g.rels)), Reverse(UpTo(Len(g.rels)))}

(***************************************************************************)
(* The summary projection: POST /graph/summary.                            *)
(***************************************************************************)
SummaryRow(g, k) ==
    [from_name |-> Label(g.nodes[g.rels[k].from]),
     to_name |-> Label(g.nodes[g.rels[k].to]),
     priority |-> g.rels[k].priority]

\* ORDER BY from_name, to_name
RowBefore(x, y) ==
    x.from_name < y.from_name \/ (x.from_name = y.from_name /\ x.to_name <= y.to_name)

RECURSIVE InsertRow(_, _)
InsertRow(x, s) ==
    IF s = <<>> THEN <<x>>
    ELSE IF RowBefore(x, Head(s)) THEN <<x>> \o s
    ELSE <<Head(s)>> \o InsertRow(x, Tail(s))

RECURSIVE SummaryRows(_, _)
SummaryRows(g, k) ==
    IF k = 0 THEN <<>> ELSE InsertRow(SummaryRow(g, k), SummaryRows(g, k - 1))

(***************************************************************************)
(* Requests and responses.  `last` records the request answered last: its  *)
(* response, and beside it what the properties need of the request: the    *)
(* input (kept when it is a list of records that all carry both ids, which *)
(* is what `valid` says), whether it repeated the request before it        *)
(* (again), whether the request before it was a successful build from an   *)
(* empty list (afterEmpty), and which person ids the store held when it    *)
(* began (beforeIds).                                                      *)
(***************************************************************************)
NodeIds(g) == {g.nodes[k].id : k \in 1..Len(g.nodes)}

NoNames == [i \in Ids |-> Null]
NoBody == Body("absent", <<>>)

ValidBody(applications) ==
    /\ applications.kind = "list"
    /\ \A i \in 1..Len(applications.items) :
           /\ applications.items[i].user_id # Null
           /\ applications.items[i].target_user_id # Null

Answer(op, applications, usersById, status, nodes, relationships, chains, rows) ==
    LET valid == op = "build" /\ ValidBody(applications)
        kept == IF valid THEN applications ELSE NoBody
        names == IF valid THEN usersById ELSE NoNames
    IN  [op |-> op, valid |-> valid, applications |-> kept, usersById |-> names,
         status |-> status, nodes |-> nodes, relationships |-> relationships,
         chains |-> chains, rows |-> rows,
         again |-> /\ valid
                   /\ last.valid
                   /\ last.applications = kept
                   /\ last.usersById = names,
         afterEmpty |-> /\ last.valid
                        /\ last.status = 200
                        /\ last.applications.items = <<>>,
         beforeIds |-> NodeIds(graph)]

NoRequest ==
    [op |-> "none", valid |-> FALSE, applications |-> NoBody, usersById |-> NoNames,
     status |-> 0, nodes |-> 0, relationships |-> 0, chains |-> <<>>, rows |-> <<>>,
     again |-> FALSE, afterEmpty |-> FALSE, beforeIds |-> {}]

\* A request slot.  op is the route ("none" before the request arrives), pc
\* the statement the handler is at, retries the argument of the running
\* ensureNeo4jReady call, attempts the verifyConnectivity calls made so far,
\* apps the applications of a build; status, nodes, relationships, chains
\* and rows are the response (status 0: none sent); session and driver are
\* the store session, and the driver of a revision that creates one per
\* request: "none", "open" or "closed".  before (the store when
\* the request arrived) and overlap (the builds in progress at some time
\* while this request was) are kept for the properties.
Reqs == 1..MaxReqs
Idle ==
    [op |-> "none", pc |-> "idle", retries |-> 0, attempts |-> 0, apps |-> <<>>,
     before |-> EmptyGraph, overlap |-> {}, session |-> "none", driver |-> "none",
     status |-> 0, nodes |-> 0, relationships |-> 0, chains |-> <<>>, rows |-> <<>>]
NoRequests == [r \in Reqs |-> Idle]

\* The route asked for, the request headers x-graph-token and authorization (the token after
\* "Bearer", Null when the header is absent or of another scheme), the
\* outcome of the calls to the identity service ("unused" when not made),
\* the status the middleware answered (0: it called next()), whether the
\* route handler ran, and the configured GRAPH_SERVICE_TOKEN.
NoAuth ==
    [route |-> "none", token |-> Null, authorization |-> Null, getUser |-> "unused", lookup |-> "unused",
     status |-> 0, ran |-> FALSE, serviceToken |-> Null]

\* The applications table: row a belongs to user Owner(a).
AppRows == 1..NumAppRows
Users == 1..NumUsers
Owner(a) == ((a - 1) % NumUsers) + 1
NoPriorities == [a \in AppRows |-> 1]
NoReorder == [userId |-> 0, updates |-> [kind |-> "absent", items |-> <<>>],
              failAt |-> 0, status |-> 0]

\* What UNWIND $apps iterates over, for { apps: applications || [] }: a
\* list as it is, nothing for an absent value, and a value that is not a
\* list as a list of that one value.  A scalar row has no property user_id
\* to read, which is a type error of the statement.
UnwindRows(applications) ==
    IF applications.kind = "scalar" THEN [ok |-> FALSE, rows |-> <<>>]
    ELSE [ok |-> TRUE, rows |-> applications.items]

\* The transaction with the counts taken from the size of the input
BuildTxCountInput(g, applications, usersById) ==
    LET unwound == UnwindRows(applications)
        merged == MergeApps(DetachDeleteAll(g), unwound.rows, usersById, Len(unwound.rows))
    IN  IF unwound.ok /\ merged.ok
        THEN [ok |-> TRUE, graph |-> merged.graph,
              nodes |-> 2 * Len(unwound.rows),
              relationships |-> Len(unwound.rows)]
        ELSE [ok |-> FALSE, graph |-> g, nodes |-> 0, relationships |-> 0]

\* The function given to session.writeTransaction: delete, repopulate,
\* count.  ok = FALSE when a statement raised an error.
BuildTx(g, applications, usersById) ==
    LET unwound == UnwindRows(applications)
        merged == MergeApps(DetachDeleteAll(g), unwound.rows, usersById, Len(unwound.rows))
    IN  IF unwound.ok /\ merged.ok
        THEN [ok |-> TRUE, graph |-> merged.graph,
              nodes |-> CountNodes(merged.graph),
              relationships |-> CountRels(merged.graph)]
        ELSE [ok |-> FALSE, graph |-> g, nodes |-> 0, relationships |-> 0]

\* POST /build-graph of src/server.js.  A transaction that raised an error
\* is rolled back: the store keeps what it held.
BuildGraph(applications, usersById) ==
    /\ rev = "server"
    /\ LET out == BuildTx(graph, applications, usersById)
       IN  /\ graph' = out.graph
           /\ last' = Answer("build", applications, usersById,
                             IF out.ok THEN 200 ELSE 500,
                             out.nodes, out.relationships, <<>>, <<>>)
    /\ UNCHANGED <<rev, reqs, up>>

\* POST /build-graph of the revision without a transaction: the delete and
\* the repopulation are two auto-commit statements, each committed, or
\* failed and rolled back, on its own.
BuildGraphLegacy(applications, usersById) ==
    /\ rev = "legacy"
    /\ IF applications.kind # "list"
       THEN /\ graph' = graph
            /\ last' = Answer("build", applications, usersById, 400, 0, 0, <<>>, <<>>)
       ELSE LET deleted == DetachDeleteAll(graph)
                merged == MergeApps(deleted, applications.items, usersById,
                                   Len(applications.items))
            IN  IF merged.ok
                THEN /\ graph' = merged.graph
                     /\ last' = Answer("build", applications, usersById, 200,
                                       CountNodes(merged.graph), CountRels(merged.graph),
                                       <<>>, <<>>)
                ELSE /\ graph' = deleted
                     /\ last' = Answer("build", applications, usersById, 500, 0, 0,
                                       <<>>, <<>>)
    /\ UNCHANGED <<rev, reqs, up>>

\* POST /graph/chains
GraphChains(scan, order) ==
    /\ rev = "server"
    /\ last' = Answer("chains", NoBody, NoNames, 200, 0, 0, Chains(graph, scan, order), <<>>)
    /\ UNCHANGED <<rev, graph, reqs, up>>

\* POST /graph/summary
GraphSummary ==
    /\ rev = "server"
    /\ last' = Answer("summary", NoBody, NoNames, 200, 0, 0, <<>>,
                      SummaryRows(graph, Len(graph.rels)))
    /\ UNCHANGED <<rev, graph, reqs, up>>

\* GET /graph/summary
GraphCounts ==
    /\ rev = "server"
    /\ last' = Answer("counts", NoBody, NoNames, 200,
                      CountNodes(graph), CountRels(graph), <<>>, <<>>)
    /\ UNCHANGED <<rev, graph, reqs, up>>

Init ==
    /\ rev \in {"server", "legacy"}
    /\ graph = EmptyGraph
    /\ last = NoRequest
    /\ reqs = NoRequests
    /\ up = TRUE
    /\ auth = NoAuth
    /\ priorities = NoPriorities
    /\ reorder = NoReorder

Next ==
    \/ \E applications \in Bodies, usersById \in NameMaps :
           BuildGraph(applications, usersById) /\ UNCHANGED <<auth, priorities, reorder>>
    \/ \E applications \in Bodies, usersById \in NameMaps :
           BuildGraphLegacy(applications, usersById)
               /\ UNCHANGED <<auth, priorities, reorder>>
    \/ \E scan \in ScanOrders(graph), order \in RelOrders(graph) :
           GraphChains(scan, order) /\ UNCHANGED <<auth, priorities, reorder>>
    \/ GraphSummary /\ UNCHANGED <<auth, priorities, reorder>>
    \/ GraphCounts /\ UNCHANGED <<auth, priorities, reorder>>

Spec == Init /\ [][Next]_vars

(***************************************************************************)
(* What a list of application records asks for, read off the list itself.  *)
(***************************************************************************)
PairOf(app) == <<Val(app.user_id), Val(app.target_user_id)>>
Endpoints(apps) == UNION {{PairOf(apps[i])[1], PairOf(apps[i])[2]} : i \in 1..Len(apps)}
Pairs(apps) == {PairOf(apps[i]) : i \in 1..Len(apps)}
LastRecord(apps, pair) ==
    apps[CHOOSE i \in 1..Len(apps) :
             /\ PairOf(apps[i]) = pair
             /\ \A j \in (i + 1)..Len(apps) : PairOf(apps[j]) # pair]

\* The relationships of g from a person with id a to a person with id b.
RelsBetweenIds(g, a, b) ==
    {k \in 1..Len(g.rels) : g.nodes[g.rels[k].from].id = a /\ g.nodes[g.rels[k].to].id = b}
RelPairs(g) ==
    {<<g.nodes[g.rels[k].from].id, g.nodes[g.rels[k].to].id>> : k \in 1..Len(g.rels)}

\* The last request was a build from a list of well-formed records that
\* answered 200.
BuiltOk == last.op = "build" /\ last.valid /\ last.status = 200

(***************************************************************************)
(* C3.  After a successful rebuild the graph holds nothing but what the    *)
(* call's input names: every person is an endpoint of an input record and  *)
(* carries the name the input gives it (none when it gives none), every    *)
(* relationship joins a pair of the input; persons and relationships of     *)
(* earlier builds are gone.  A rebuild repeated right away with the same    *)
(* input answers the same counts and leaves the same graph.                 *)
(***************************************************************************)
C3NothingElse ==
    BuiltOk =>
        /\ NodeIds(graph) \subseteq Endpoints(last.applications.items)
        /\ RelPairs(graph) \subseteq Pairs(last.applications.items)
        /\ \A k \in 1..Len(graph.nodes) :
               graph.nodes[k].full_name = last.usersById[graph.nodes[k].id]

C3Repeated ==
    (BuiltOk /\ last'.op = "build" /\ last'.again) =>
        /\ last'.status = 200
        /\ last'.nodes = last.nodes
        /\ last'.relationships = last.relationships
        /\ graph' = graph

C3_RebuildDependsOnInputOnly == [](C3NothingElse) /\ [][C3Repeated]_vars

\* A successful rebuild whose input leaves out a person the store held.
C3_Witness ==
    /\ BuiltOk
    /\ last.beforeIds \ Endpoints(last.applications.items) # {}

(***************************************************************************)
(* C4.  After a successful rebuild every ordered pair (source, target) of  *)
(* the input has exactly one relationship, and its priority is that of the *)
(* last input record for the pair (null when that record has none).        *)
(***************************************************************************)
C4_OneEdgePerPairLastWins ==
    BuiltOk =>
        \A pair \in Pairs(last.applications.items) :
            /\ Cardinality(RelsBetweenIds(graph, pair[1], pair[2])) = 1
            /\ \A k \in RelsBetweenIds(graph, pair[1], pair[2]) :
                   graph.rels[k].priority
                       = LastRecord(last.applications.items, pair).priority

\* A successful rebuild whose input has one pair twice, with two priorities.
C4_Witness ==
    /\ BuiltOk
    /\ \E i, j \in 1..Len(last.applications.items) :
           /\ i < j
           /\ PairOf(last.applications.items[i]) = PairOf(last.applications.items[j])
           /\ last.applications.items[i].priority # last.applications.items[j].priority

(***************************************************************************)
(* C5.  The counts a rebuild answers are the numbers of persons and of     *)
(* relationships in the graph when it ends: the number of distinct ids     *)
(* that are an endpoint of an input record and the number of distinct      *)
(* ordered pairs, not the number of records.  An empty input answers       *)
(* {0, 0}, and the chains request that follows it answers no chain.        *)
(***************************************************************************)
C5_CountsReadBack ==
    /\ BuiltOk =>
           /\ last.nodes = CountNodes(graph)
           /\ last.relationships = CountRels(graph)
           /\ last.nodes = Cardinality(Endpoints(last.applications.items))
           /\ last.relationships = Cardinality(Pairs(last.applications.items))
    /\ (last.op = "chains" /\ last.afterEmpty) => last.chains = <<>>

\* A successful rebuild whose input has more records than distinct pairs.
C5_Witness ==
    /\ BuiltOk
    /\ Len(last.applications.items) > Cardinality(Pairs(last.applications.items))

(***************************************************************************)
(* C9.  A build request whose applications value is not a list, or holds a *)
(* record without user_id or target_user_id, is answered with an error and *)
(* leaves the graph as it was.                                             *)
(***************************************************************************)
C9Step ==
    (last'.op = "build" /\ ~last'.valid) =>
        /\ last'.status >= 400
        /\ graph' = graph

C9_InvalidInputRejectedWithoutEffect == [][C9Step]_vars

(***************************************************************************)
(* The cycle finder over a range of graphs.  SpecChains starts from a      *)
(* graph that a build request produced and answers chains requests on it.  *)
(* The inputs of that build: every short list of records, rings            *)
(* 1 -> 2 -> ... -> n -> 1 with up to MaxChords further relationships      *)
(* j -> 1 (j = 1 is a self-loop), rings with a relationship in both        *)
(* directions between neighbours, and flowers (1 <-> j for every petal j). *)
(***************************************************************************)
MaxRing == 11       \* longest ring, one more than MaxHops
MaxChords == 2      \* most relationships j -> 1 added to a ring
MaxBiRing == 4      \* longest ring with relationships in both directions
MaxPetals == 3      \* most petals of a flower

ChainIds == 1..MaxRing
Record(u, t, priority) ==
    [user_id |-> Some(u), target_user_id |-> Some(t), priority |-> priority]

RECURSIVE Ascending(_)
Ascending(S) ==
    IF S = {} THEN <<>>
    ELSE LET x == CHOOSE y \in S : \A z \in S : y <= z
         IN  <<x>> \o Ascending(S \ {x})

RingApps(n, closing, chords) ==
    [i \in 1..n |-> Record(i, (i % n) + 1, IF i = n THEN closing ELSE Some(1))]
        \o [i \in 1..Cardinality(chords) |-> Record(Ascending(chords)[i], 1, Some(2))]

BiRingApps(n) ==
    [i \in 1..n |-> Record(i, (i % n) + 1, Some(1))]
        \o [i \in 1..n |-> Record((i % n) + 1, i, Some(2))]

FlowerApps(k) ==
    [i \in 1..(2 * k) |->
        IF i % 2 = 1 THEN Record(1, (i + 1) \div 2 + 1, Some(1))
        ELSE Record(i \div 2 + 1, 1, Null)]

\* usersById over the ids of these graphs: no names; persons 1 and 2 with
\* one and the same name; person 2 named by the id of person 1.
ChainNoNames == [i \in ChainIds |-> Null]
ChainNameMaps ==
    {ChainNoNames,
     [i \in ChainIds |-> IF i <= 2 THEN Some(MaxRing + 1) ELSE Null],
     [i \in ChainIds |-> IF i = 2 THEN Some(1) ELSE Null]}

ChainInput(apps, usersById) == [apps |-> apps, usersById |-> usersById]

RingInputs ==
    UNION {{ChainInput(RingApps(n, closing, chords), ChainNoNames) :
               closing \in Opt(1..2),
               chords \in {c \in SUBSET (1..(n - 1)) : Cardinality(c) <= MaxChords}} :
           n \in 1..MaxRing}
DenseInputs ==
    {ChainInput(apps, usersById) :
        apps \in {s.items : s \in {b \in ListBodies : ValidBody(b)}}
                     \cup {BiRingApps(n) : n \in 3..MaxBiRing}
                     \cup {FlowerApps(k) : k \in 2..MaxPetals},
        usersById \in ChainNameMaps}
ChainInputs == RingInputs \cup DenseInputs

InitChains ==
    /\ rev = "server"
    /\ graph \in {BuildTx(EmptyGraph, Body("list", in.apps), in.usersById).graph :
                      in \in ChainInputs}
    /\ last = NoRequest
    /\ reqs = NoRequests
    /\ up = TRUE
    /\ auth = NoAuth
    /\ priorities = NoPriorities
    /\ reorder = NoReorder

NextChains ==
    \E scan \in ScanOrders(graph), order \in RelOrders(graph) :
        GraphChains(scan, order) /\ UNCHANGED <<auth, priorities, reorder>>

SpecChains == InitChains /\ [][NextChains]_vars

(***************************************************************************)
(* C6.  Every chain of a chains response is a simple directed cycle of the *)
(* graph: between 2 and MaxHops persons, pairwise distinct nodes of the    *)
(* store, a relationship from each person to the next and from the last    *)
(* back to the first; length and people are the size and the labels of     *)
(* those persons.  Hence no chain made of, or passing through, a           *)
(* self-loop, and none longer than MaxHops.                                *)
(***************************************************************************)
C6_ChainsAreSimpleCycles ==
    last.op = "chains" =>
        \A i \in 1..Len(last.chains) :
            LET c == last.chains[i]
                n == Len(c.persons)
            IN  /\ 2 <= n /\ n <= 10
                /\ c.length = n
                /\ Len(c.people) = n
                /\ \A x \in 1..n :
                       /\ c.persons[x] \in 1..Len(graph.nodes)
                       /\ c.people[x] = Label(graph.nodes[c.persons[x]])
                       /\ RelsBetween(graph, c.persons[x], c.persons[(x % n) + 1]) # {}
                /\ \A x, y \in 1..n : x # y => c.persons[x] # c.persons[y]

\* Chains were returned, one of them of the greatest length, from a graph
\* that holds a self-loop and a ring of more than MaxHops persons.
C6_Witness ==
    /\ last.op = "chains"
    /\ \E i \in 1..Len(last.chains) : last.chains[i].length = MaxHops
    /\ \E k \in 1..Len(graph.rels) : graph.rels[k].from = graph.rels[k].to
    /\ Len(graph.nodes) > MaxHops
    /\ \A a \in 1..Len(graph.nodes) :
           RelsBetween(graph, a, (a % Len(graph.nodes)) + 1) # {}

(***************************************************************************)
(* C7.  A chains response holds exactly one chain for each simple cycle    *)
(* the query enumerates: for every enumerated row, one and only one chain  *)
(* of the response goes through the same persons in the same cyclic order. *)
(***************************************************************************)
C7Rotation(p, q) ==
    /\ Len(p) = Len(q)
    /\ \E k \in 0..(Len(p) - 1) :
           \A i \in 1..Len(p) : q[i] = p[((i + k - 1) % Len(p)) + 1]

C7Enumerated == MatchRows(graph, UpTo(Len(graph.nodes)), UpTo(Len(graph.rels)), 1)

C7_OneChainPerCycle ==
    last.op = "chains" =>
        \A j \in 1..Len(C7Enumerated) :
            Cardinality({i \in 1..Len(last.chains) :
                            C7Rotation(C7Enumerated[j].persons, last.chains[i].persons)}) = 1

(***************************************************************************)
(* C8.  For every chain of a chains response, avgPriority is null exactly  *)
(* when a relationship of the cycle has no priority; otherwise it is the   *)
(* mean of the priorities of the relationships between consecutive persons *)
(* of the cycle, rounded to hundredths, a tie going up.                    *)
(***************************************************************************)
C8Edges(persons) ==
    [x \in 1..Len(persons) |->
        CHOOSE k \in 1..Len(graph.rels) :
            /\ graph.rels[k].from = persons[x]
            /\ graph.rels[k].to = persons[(x % Len(persons)) + 1]]

RECURSIVE C8Sum(_, _)
C8Sum(edges, x) ==
    IF x = 0 THEN 0 ELSE Val(graph.rels[edges[x]].priority) + C8Sum(edges, x - 1)

C8_AvgPriorityNullOrRoundedMean ==
    last.op = "chains" =>
        \A i \in 1..Len(last.chains) :
            LET c == last.chains[i]
                n == Len(c.persons)
                edges == C8Edges(c.persons)
                someNull == \E x \in 1..n : graph.rels[edges[x]].priority = Null
            IN  /\ (c.avgPriority = Null) <=> someNull
                /\ ~someNull =>
                       LET h == Val(c.avgPriority)
                           total == 100 * C8Sum(edges, n)
                       IN  /\ 2 * (h * n - total) <= n
                           /\ 2 * (total - h * n) < n

\* One chain without an average beside one whose mean, 4 / 3, is rounded.
C8_Witness ==
    /\ last.op = "chains"
    /\ \E i, j \in 1..Len(last.chains) :
           /\ last.chains[i].avgPriority = Null
           /\ last.chains[i].length > 2
           /\ last.chains[j].avgPriority = Some(133)
           /\ last.chains[j].length = 3

(***************************************************************************)
(* Requests in progress at the same time.  A handler is a sequence of      *)
(* awaited calls; between two of them the handlers of other requests run.  *)
(* Each step below is one awaited call: one verifyConnectivity attempt of  *)
(* ensureNeo4jReady, one auto-commit session.run, or one                   *)
(* session.writeTransaction, whose statements the store commits together.  *)
(* The r-th request to arrive takes slot r.                                *)
(***************************************************************************)
Retries == 20       \* async function ensureNeo4jReady(retries = 20)

ConcInputs ==
    {b.items : b \in {c \in ListBodies : ValidBody(c) /\ Len(c.items) <= MaxConcApps}}

\* The routes of each revision.
Routes ==
    IF rev = "server" THEN {"build", "chains", "summary", "counts"}
    ELSE {"build", "summary"}

\* The first statement of a handler after the connectivity check.
FirstStatement(op) ==
    CASE op = "build" -> IF rev = "server" THEN "tx" ELSE "delete"
      [] op = "chains" -> "query"
      [] op = "summary" -> "query"
      [] op = "counts" -> "countNodes"

InProgress(q) == reqs[q].pc \notin {"idle", "done", "thrown"}
BuildsInProgress == {q \in Reqs : reqs[q].op = "build" /\ InProgress(q)}

\* A request arrives.  src/server.js awaits ensureNeo4jReady() first; the
\* revision without a transaction creates its own driver, opens a session
\* on it and goes on.
Arrive(r, op, apps) ==
    /\ reqs[r].pc = "idle"
    /\ \A q \in Reqs : q < r => reqs[q].pc # "idle"
    /\ op \in Routes
    /\ op # "build" => apps = <<>>
    /\ reqs' = [q \in Reqs |->
                   IF q = r
                   THEN [Idle EXCEPT !.op = op,
                                     !.pc = IF rev = "server" THEN "connect"
                                            ELSE FirstStatement(op),
                                     !.retries = Retries,
                                     !.apps = apps,
                                     !.before = graph,
                                     !.overlap = BuildsInProgress,
                                     !.driver = IF rev = "server" THEN "none" ELSE "open",
                                     !.session = IF rev = "server" THEN "none" ELSE "open"]
                   ELSE IF op = "build" /\ InProgress(q)
                   THEN [reqs[q] EXCEPT !.overlap = @ \cup {r}]
                   ELSE reqs[q]]
    /\ UNCHANGED <<rev, graph, last, up, auth, priorities, reorder>>

\* One run of the body of ensureNeo4jReady: verifyConnectivity resolves and
\* the handler goes on (const session = driver.session()), or it rejects and the function throws when retries
\* <= 0 and otherwise calls itself with retries - 1 after the sleep.  The
\* call is outside the handler's try block: when it throws, the handler's
\* promise rejects and no statement of the handler sends a response.
ensureNeo4jReady(r) ==
    LET q == reqs[r]
    IN  /\ q.pc = "connect"
        /\ reqs' = [reqs EXCEPT ![r] =
               IF up
               THEN [q EXCEPT !.attempts = @ + 1, !.pc = FirstStatement(q.op),
                              !.session = "open"]
               ELSE IF q.retries <= 0
               THEN [q EXCEPT !.attempts = @ + 1, !.pc = "thrown"]
               ELSE [q EXCEPT !.attempts = @ + 1, !.retries = @ - 1]]
        /\ UNCHANGED <<rev, graph, last, up, auth, priorities, reorder>>

\* session.writeTransaction of POST /build-graph, and the response.
WriteTransaction(r) ==
    LET q == reqs[r]
        out == BuildTx(graph, Body("list", q.apps), NoNames)
    IN  /\ q.pc = "tx"
        /\ graph' = out.graph
        /\ reqs' = [reqs EXCEPT ![r] =
               [q EXCEPT !.pc = "finally",
                         !.status = IF out.ok THEN 200 ELSE 500,
                         !.nodes = out.nodes,
                         !.relationships = out.relationships]]
        /\ UNCHANGED <<rev, last, up, auth, priorities, reorder>>

\* await session.run("MATCH (n) DETACH DELETE n")
DeleteStatement(r) ==
    /\ reqs[r].pc = "delete"
    /\ graph' = DetachDeleteAll(graph)
    /\ reqs' = [reqs EXCEPT ![r].pc = "merge"]
    /\ UNCHANGED <<rev, last, up, auth, priorities, reorder>>

\* await session.run(UNWIND ... MERGE ...): against the store as it is now.
MergeStatement(r) ==
    LET q == reqs[r]
        merged == MergeApps(graph, q.apps, NoNames, Len(q.apps))
    IN  /\ q.pc = "merge"
        /\ IF merged.ok
           THEN /\ graph' = merged.graph
                /\ reqs' = [reqs EXCEPT ![r].pc = "countNodes"]
           ELSE /\ graph' = graph
                /\ reqs' = [reqs EXCEPT ![r] = [q EXCEPT !.pc = "finally", !.status = 500]]
        /\ UNCHANGED <<rev, last, up, auth, priorities, reorder>>

\* await session.run("MATCH (n:Person) RETURN count(n) AS c")
CountNodesStatement(r) ==
    /\ reqs[r].pc = "countNodes"
    /\ reqs' = [reqs EXCEPT ![r] =
           [reqs[r] EXCEPT !.pc = "countRels", !.nodes = CountNodes(graph)]]
    /\ UNCHANGED <<rev, graph, last, up, auth, priorities, reorder>>

\* await session.run("MATCH (:Person)-[r:CANDIDATO_A]->(:Person) RETURN
\* count(r) AS c"), and the response.
CountRelsStatement(r) ==
    /\ reqs[r].pc = "countRels"
    /\ reqs' = [reqs EXCEPT ![r] =
           [reqs[r] EXCEPT !.pc = "finally", !.status = 200,
                           !.relationships = CountRels(graph)]]
    /\ UNCHANGED <<rev, graph, last, up, auth, priorities, reorder>>

\* The query of POST /graph/chains, and the response.
ChainsQuery(r, scan, order) ==
    /\ reqs[r].pc = "query"
    /\ reqs[r].op = "chains"
    /\ reqs' = [reqs EXCEPT ![r] =
           [reqs[r] EXCEPT !.pc = "finally", !.status = 200,
                           !.chains = Chains(graph, scan, order)]]
    /\ UNCHANGED <<rev, graph, last, up, auth, priorities, reorder>>

\* GET /graph/summary of the revision without a transaction: one row per
\* relationship, ORDER BY r.priority ASC (null last).
SummaryRowById(g, k) ==
    [from_id |-> g.nodes[g.rels[k].from].id,
     from_name |-> g.nodes[g.rels[k].from].full_name,
     to_id |-> g.nodes[g.rels[k].to].id,
     to_name |-> g.nodes[g.rels[k].to].full_name,
     priority |-> g.rels[k].priority]

PriorityBefore(x, y) ==
    y.priority = Null \/ (x.priority # Null /\ Val(x.priority) <= Val(y.priority))

RECURSIVE InsertByPriority(_, _)
InsertByPriority(x, s) ==
    IF s = <<>> THEN <<x>>
    ELSE IF PriorityBefore(x, Head(s)) THEN <<x>> \o s
    ELSE <<Head(s)>> \o InsertByPriority(x, Tail(s))

RECURSIVE RowsByPriority(_, _)
RowsByPriority(g, k) ==
    IF k = 0 THEN <<>>
    ELSE InsertByPriority(SummaryRowById(g, k), RowsByPriority(g, k - 1))

\* The relationships a summary request answers on graph g.
SummaryAnswer(g) ==
    IF rev = "server" THEN SummaryRows(g, Len(g.rels))
    ELSE RowsByPriority(g, Len(g.rels))

\* The query of the summary route, and the response.
SummaryQuery(r) ==
    /\ reqs[r].pc = "query"
    /\ reqs[r].op = "summary"
    /\ reqs' = [reqs EXCEPT ![r] =
           [reqs[r] EXCEPT !.pc = "finally", !.status = 200,
                           !.rows = SummaryAnswer(graph)]]
    /\ UNCHANGED <<rev, graph, last, up, auth, priorities, reorder>>

\* A statement of the handler rejects (the store answers an error): the
\* statement has no effect and the catch block answers 500.
StatementFails(r) ==
    /\ reqs[r].pc \in {"tx", "delete", "merge", "countNodes", "countRels", "query"}
    /\ reqs' = [reqs EXCEPT ![r] = [reqs[r] EXCEPT !.pc = "finally", !.status = 500]]
    /\ UNCHANGED <<rev, graph, last, up, auth, priorities, reorder>>

\* The session closed at the end of the try block, which an error skips
CloseOnSuccess(r) ==
    /\ reqs[r].pc = "finally"
    /\ reqs' = [reqs EXCEPT ![r] =
           IF reqs[r].status = 200
           THEN [reqs[r] EXCEPT !.pc = "done", !.session = "closed",
                                !.driver = IF @ = "open" THEN "closed" ELSE @]
           ELSE [reqs[r] EXCEPT !.pc = "done"]]
    /\ UNCHANGED <<rev, graph, last, up, auth, priorities, reorder>>

\* finally { await session.close(); } and, with a driver per request,
\* await driver.close(); the handler ends.
Finally(r) ==
    /\ reqs[r].pc = "finally"
    /\ reqs' = [reqs EXCEPT ![r] =
           [reqs[r] EXCEPT !.pc = "done", !.session = "closed",
                           !.driver = IF @ = "open" THEN "closed" ELSE @]]
    /\ UNCHANGED <<rev, graph, last, up, auth, priorities, reorder>>

\* The store holds what an earlier build left.
InitConc ==
    /\ rev \in {"server", "legacy"}
    /\ graph \in {BuildTx(EmptyGraph, Body("list", apps), NoNames).graph :
                      apps \in ConcInputs}
    /\ last = NoRequest
    /\ reqs = NoRequests
    /\ up = TRUE
    /\ auth = NoAuth
    /\ priorities = NoPriorities
    /\ reorder = NoReorder

NextConc ==
    \E r \in Reqs :
        \/ \E op \in Routes, apps \in ConcInputs : Arrive(r, op, apps)
        \/ ensureNeo4jReady(r)
        \/ WriteTransaction(r)
        \/ DeleteStatement(r)
        \/ MergeStatement(r)
        \/ CountNodesStatement(r)
        \/ CountRelsStatement(r)
        \/ \E scan \in ScanOrders(graph), order \in RelOrders(graph) :
               ChainsQuery(r, scan, order)
        \/ SummaryQuery(r)
        \/ StatementFails(r)
        \/ Finally(r)

SpecConc == InitConc /\ [][NextConc]_vars

(***************************************************************************)
(* The store stays unreachable: every verifyConnectivity rejects.  The     *)
(* retry timer of ensureNeo4jReady always fires, so a request that is      *)
(* waiting to retry does retry.                                            *)
(***************************************************************************)
InitReady ==
    /\ rev = "server"
    /\ graph = EmptyGraph
    /\ last = NoRequest
    /\ reqs = NoRequests
    /\ up = FALSE
    /\ auth = NoAuth
    /\ priorities = NoPriorities
    /\ reorder = NoReorder

NextReady ==
    \E r \in Reqs :
        \/ \E op \in Routes, apps \in ConcInputs : Arrive(r, op, apps)
        \/ ensureNeo4jReady(r)

SpecReady ==
    InitReady /\ [][NextReady]_vars /\ \A r \in Reqs : WF_vars(ensureNeo4jReady(r))

\* The graph a build of `apps` alone produces.
Built(apps) == BuildTx(EmptyGraph, Body("list", apps), NoNames).graph

(***************************************************************************)
(* C1.  A read that ran while one rebuild, and no other, was in progress   *)
(* answers what it would answer on the graph as it was before that rebuild *)
(* started or on the graph that rebuild alone produces.                    *)
(***************************************************************************)
C1AnswerOn(r, g) ==
    CASE reqs[r].op = "chains" ->
             \E scan \in ScanOrders(g), order \in RelOrders(g) :
                 reqs[r].chains = Chains(g, scan, order)
      [] reqs[r].op = "summary" -> reqs[r].rows = SummaryAnswer(g)
      [] reqs[r].op = "counts" ->
             /\ reqs[r].nodes = CountNodes(g)
             /\ reqs[r].relationships = CountRels(g)

C1_ReadsSeeCompleteGraph ==
    \A r, b \in Reqs :
        (/\ reqs[r].op \in {"chains", "summary", "counts"}
         /\ reqs[r].pc = "done"
         /\ reqs[r].status = 200
         /\ reqs[r].overlap = {b}
         /\ reqs[b].overlap = {})
        => (C1AnswerOn(r, reqs[b].before) \/ C1AnswerOn(r, Built(reqs[b].apps)))

(***************************************************************************)
(* C2.  When two rebuilds ran at the same time and both have completed,    *)
(* the graph is the one built from the input of one of them alone.         *)
(***************************************************************************)
C2_ConcurrentRebuildsLeaveOneInput ==
    \A x, y \in Reqs :
        (/\ x # y
         /\ reqs[x].op = "build" /\ reqs[x].pc = "done" /\ reqs[x].status = 200
         /\ reqs[y].op = "build" /\ reqs[y].pc = "done" /\ reqs[y].status = 200
         /\ y \in reqs[x].overlap
         /\ {q \in Reqs : reqs[q].op = "build"} = {x, y})
        => graph \in {Built(reqs[x].apps), Built(reqs[y].apps)}

(***************************************************************************)
(* C10.  With the store unreachable, a request makes at most Retries + 1   *)
(* connectivity attempts, and a handler that has ended has sent an error   *)
(* response to its caller.                                                 *)
(***************************************************************************)
C10_UnreachableStoreAnswersError ==
    \A r \in Reqs :
        /\ reqs[r].attempts <= 21
        /\ reqs[r].pc \in {"done", "thrown"} => reqs[r].status >= 500

(***************************************************************************)
(* C11.  A request whose handler has ended holds no open session and no    *)
(* open driver: a handler that opened them has closed them, whether it     *)
(* answered 200 or caught an error, and a handler that ended before        *)
(* opening a session never had one.                                        *)
(***************************************************************************)
C11_SessionsClosedAtEnd ==
    \A r \in Reqs :
        /\ reqs[r].pc = "done" =>
               /\ reqs[r].session = "closed"
               /\ reqs[r].driver = IF rev = "server" THEN "none" ELSE "closed"
        /\ reqs[r].pc = "thrown" =>
               /\ reqs[r].session = "none"
               /\ reqs[r].driver = "none"

\* Every request has ended, one with its response and one in the catch
\* block; both sessions are closed.
C11_Witness ==
    /\ \A r \in Reqs : reqs[r].pc = "done" /\ reqs[r].session = "closed"
    /\ \E r \in Reqs : reqs[r].status = 200
    /\ \E r \in Reqs : reqs[r].status = 500

(***************************************************************************)
(* C12.  The chains of a chains response are in ascending order of length, *)
(* chains of equal length in the order in which the query enumerated them: *)
(* the response is the enumerated, deduplicated list sorted by length by a *)
(* stable sort.                                                            *)
(***************************************************************************)
RECURSIVE C12InsertByLength(_, _)
C12InsertByLength(x, s) ==
    IF s = <<>> THEN <<x>>
    ELSE IF x.length <= Head(s).length THEN <<x>> \o s
    ELSE <<Head(s)>> \o C12InsertByLength(x, Tail(s))

RECURSIVE C12ByLength(_)
C12ByLength(s) ==
    IF s = <<>> THEN <<>> ELSE C12InsertByLength(Head(s), C12ByLength(Tail(s)))

C12_ChainsAscendingByLength ==
    last.op = "chains" =>
        /\ \A i, j \in 1..Len(last.chains) :
               i < j => last.chains[i].length <= last.chains[j].length
        /\ \E scan \in ScanOrders(graph), order \in RelOrders(graph) :
               last.chains = C12ByLength(Chains(graph, scan, order))

(***************************************************************************)
(* Authorisation.  Every graph route runs behind a middleware:             *)
(* requireAdmin in src/server.js, requireToken in the revisions of         *)
(* src/unnamed/part_000.  The identity service is called over the network: *)
(* a call answers ("ok"), answers an error ("error") or throws ("throws"). *)
(***************************************************************************)
Tokens == Opt(1..2)         \* x-graph-token: absent, or one of two tokens
Jwts == 0..NumUsers         \* a bearer token: of user u, or (0) of no user
Admins == {1}               \* the user_id column of app_admins
Credentials == [token : Tokens, authorization : Opt(Jwts)]

\* resolveAuth: the mode of the result, "none" for null, and "throws" when
\* supabaseAdmin.auth.getUser throws.
resolveAuth(cred, serviceToken, getUser) ==
    IF cred.token # Null /\ serviceToken # Null /\ cred.token = serviceToken
    THEN [mode |-> "token", userId |-> 0]
    ELSE IF cred.authorization = Null THEN [mode |-> "none", userId |-> 0]
    ELSE IF getUser = "throws" THEN [mode |-> "throws", userId |-> 0]
    ELSE IF getUser = "error" \/ Val(cred.authorization) \notin Users
    THEN [mode |-> "none", userId |-> 0]
    ELSE [mode |-> "supabase", userId |-> Val(cred.authorization)]

\* The middleware without the lookup in app_admins: any user passes
requireAdminAnyUser(cred, serviceToken, getUser, lookup) ==
    LET a == resolveAuth(cred, serviceToken, getUser)
    IN  IF a.mode = "throws" THEN 500
        ELSE IF a.mode = "none" THEN 401
        ELSE 0

\* requireAdmin: the status it answers, 0 when it calls next().
requireAdmin(cred, serviceToken, getUser, lookup) ==
    LET a == resolveAuth(cred, serviceToken, getUser)
    IN  IF a.mode = "throws" THEN 500
        ELSE IF a.mode = "none" THEN 401
        ELSE IF a.mode = "token" THEN 0
        ELSE IF lookup = "throws" \/ lookup = "error" THEN 500
        ELSE IF a.userId \notin Admins THEN 403
        ELSE 0

\* requireToken of src/unnamed/part_000.
requireToken(cred, serviceToken) ==
    IF cred.token = Null \/ cred.token # serviceToken THEN 401 ELSE 0

Middleware(cred, serviceToken, getUser, lookup) ==
    IF rev = "server" THEN requireAdmin(cred, serviceToken, getUser, lookup)
    ELSE requireToken(cred, serviceToken)

\* The outcomes of the calls an evaluation of the middleware makes.
GetUserOutcomes(cred) ==
    IF /\ rev = "server"
       /\ resolveAuth(cred, auth.serviceToken, "ok").mode # "token"
       /\ cred.authorization # Null
    THEN {"ok", "error", "throws"} ELSE {"unused"}

LookupOutcomes(cred, getUser) ==
    IF rev = "server" /\ resolveAuth(cred, auth.serviceToken, getUser).mode = "supabase"
    THEN {"ok", "error", "throws"} ELSE {"unused"}

\* The middleware runs on a request to `route`.
Authorise(route, cred, getUser, lookup) ==
    LET status == Middleware(cred, auth.serviceToken, getUser, lookup)
    IN  auth' = [route |-> route, token |-> cred.token,
                 authorization |-> cred.authorization,
                 getUser |-> getUser, lookup |-> lookup,
                 status |-> status, ran |-> status = 0,
                 serviceToken |-> auth.serviceToken]

\* The middleware answers the request itself; the handler does not run.
Refused(route) ==
    /\ route \in Routes \cup (IF rev = "server" THEN {"warmup"} ELSE {})
    /\ \E cred \in Credentials :
           \E getUser \in GetUserOutcomes(cred) :
               \E lookup \in LookupOutcomes(cred, getUser) :
                   /\ Authorise(route, cred, getUser, lookup)
                   /\ auth'.status # 0
    /\ UNCHANGED <<rev, graph, last, reqs, up, priorities, reorder>>

\* The middleware calls next(): the handler of the route runs.
Admitted(route) ==
    /\ \E cred \in Credentials :
           \E getUser \in GetUserOutcomes(cred) :
               \E lookup \in LookupOutcomes(cred, getUser) :
                   /\ Authorise(route, cred, getUser, lookup)
                   /\ auth'.status = 0
    /\ UNCHANGED <<priorities, reorder>>

\* POST /neo4j/warmup: ensureNeo4jReady(20) inside a try block, answered OK
\* or WAIT; no session, no statement.
Warmup ==
    /\ rev = "server"
    /\ last' = Answer("warmup", NoBody, NoNames, 200, 0, 0, <<>>, <<>>)
    /\ UNCHANGED <<rev, graph, reqs, up>>

\* GET /graph/summary of the revision without a transaction.
GraphSummaryLegacy ==
    /\ rev = "legacy"
    /\ last' = Answer("summary", NoBody, NoNames, 200, 0, 0, <<>>,
                      RowsByPriority(graph, Len(graph.rels)))
    /\ UNCHANGED <<rev, graph, reqs, up>>

\* The bodies of the build requests of this specification: the applications
\* of user 1, without priority.
AuthInputs ==
    {apps \in ConcInputs :
        \A k \in 1..Len(apps) : apps[k].user_id = Some(1) /\ apps[k].priority = Null}

\* Revisions of src/unnamed/part_000 exit at start without a
\* GRAPH_SERVICE_TOKEN; src/server.js runs without one.
InitAuth ==
    /\ rev \in {"server", "legacy"}
    /\ graph = EmptyGraph
    /\ last = NoRequest
    /\ reqs = NoRequests
    /\ up = TRUE
    /\ auth \in {[NoAuth EXCEPT !.serviceToken = t] :
                    t \in IF rev = "server" THEN Tokens \ {Some(2)} ELSE {Some(1)}}
    /\ priorities = NoPriorities
    /\ reorder = NoReorder

NextAuth ==
    \/ \E route \in {"build", "chains", "summary", "counts", "warmup"} : Refused(route)
    \/ \E apps \in AuthInputs :
           Admitted("build") /\ BuildGraph(Body("list", apps), NoNames)
    \/ \E apps \in AuthInputs :
           Admitted("build") /\ BuildGraphLegacy(Body("list", apps), NoNames)
    \/ \E scan \in ScanOrders(graph), order \in RelOrders(graph) :
           Admitted("chains") /\ GraphChains(scan, order)
    \/ Admitted("summary") /\ GraphSummary
    \/ Admitted("summary") /\ GraphSummaryLegacy
    \/ Admitted("counts") /\ GraphCounts
    \/ Admitted("warmup") /\ Warmup

SpecAuth == InitAuth /\ [][NextAuth]_vars

\* The request carries the configured service token.
C13ServiceToken ==
    auth.token # Null /\ auth.serviceToken # Null /\ auth.token = auth.serviceToken

\* The request carries the bearer credential of a user; only src/server.js
\* reads the authorization header.
C13BearerUser ==
    rev = "server" /\ auth.authorization # Null /\ Val(auth.authorization) \in Users

C13Valid == C13ServiceToken \/ C13BearerUser

C13Privileged ==
    C13ServiceToken \/ (C13BearerUser /\ Val(auth.authorization) \in Admins)

\* C13 as stated: a handler body runs only for a privileged request, a
\* request without a valid credential is answered 401 and a valid user who
\* is no administrator is answered 403, neither running the handler body.
C13_RefusedWith401Or403 ==
    auth.route # "none" =>
        /\ auth.ran => C13Privileged
        /\ ~C13Valid => auth.status = 401 /\ ~auth.ran
        /\ (C13Valid /\ ~C13Privileged) => auth.status = 403 /\ ~auth.ran

\* The identity service resolved the bearer credential to a user.
C13Resolved == C13BearerUser /\ auth.getUser = "ok"

C13Refusal ==
    auth.route # "none" =>
        /\ auth.ran <=> auth.status = 0
        /\ auth.ran => C13Privileged
        /\ C13ServiceToken => auth.status = 0
        /\ ~C13ServiceToken =>
               auth.status = IF auth.getUser = "throws" THEN 500
                             ELSE IF ~C13Resolved THEN 401
                             ELSE IF auth.lookup # "ok" THEN 500
                             ELSE IF Val(auth.authorization) \notin Admins THEN 403
                             ELSE 0

C13Step ==
    (graph' # graph \/ last' # last) => auth'.ran /\ C13Privileged'

\* C13, amended: the graph changes and a handler answers only in a step of
\* a privileged request whose handler body runs.  Every other request is
\* refused without the handler body running: 401 when the request has
\* neither the configured service token nor a bearer credential that the
\* identity service resolves to a user, 403 when the user is resolved and
\* app_admins answers that it is not listed, 500 when the call to the
\* identity service throws or the lookup in app_admins fails.
C13_OnlyPrivilegedRequestsRun == []C13Refusal /\ [][C13Step]_vars

\* A build request of a user who is no administrator is answered 403 on a
\* graph that a privileged build request has filled.
C13_Witness ==
    /\ auth.route = "build"
    /\ C13Valid
    /\ ~C13Privileged
    /\ auth.status = 403
    /\ graph # EmptyGraph

(***************************************************************************)
(* POST /api/users/:userId/reorder-applications (src/server.js), for a     *)
(* request that requireAuth and requireSelfOrAdmin have let through.  The  *)
(* table applications is the function priorities; row a belongs to user    *)
(* Owner(a).                                                               *)
(***************************************************************************)
\* An entry of req.body.updates: well formed ("ok"), falsy ("null"), with
\* app_ids that is no array ("no_ids") or a priority that is no number
\* ("no_priority").
UpdateEntries ==
    [kind : {"ok"}, app_ids : SUBSET AppRows, priority : 1..MaxNewPrio]
        \cup [kind : {"null", "no_ids", "no_priority"}, app_ids : {{}}, priority : {1}]

\* req.body.updates: an array, or absent, or a value that is no array.
UpdateBodies ==
    {[kind |-> "list", items |-> s] : s \in SeqsUpTo(UpdateEntries, MaxUpdates)}
        \cup {[kind |-> "absent", items |-> <<>>], [kind |-> "object", items |-> <<>>]}

\* !u || !Array.isArray(u.app_ids) || typeof u.priority !== "number"
MalformedUpdate(u) == u.kind # "ok"

\* update({priority}).in("id", u.app_ids).eq("user_id", userId)
UpdatePriority(p, userId, u) ==
    [a \in AppRows |-> IF a \in u.app_ids /\ Owner(a) = userId THEN u.priority ELSE p[a]]

\* The loop over updates from entry i on: each entry is validated and then
\* applied at once; the update of entry failAt answers an error.
RECURSIVE ApplyUpdates(_, _, _, _, _)
ApplyUpdates(p, userId, items, failAt, i) ==
    IF i > Len(items) THEN [status |-> 200, priorities |-> p]
    ELSE IF MalformedUpdate(items[i]) THEN [status |-> 400, priorities |-> p]
    ELSE IF failAt = i THEN [status |-> 500, priorities |-> p]
    ELSE ApplyUpdates(UpdatePriority(p, userId, items[i]), userId, items, failAt, i + 1)

\* The entries whose update the handler reaches.
Reached(updates) ==
    {i \in 1..Len(updates.items) :
        \A k \in 1..i : ~MalformedUpdate(updates.items[k])}

ReorderApplications(userId, updates, failAt) ==
    LET out == IF updates.kind # "list" \/ Len(updates.items) = 0
               THEN [status |-> 400, priorities |-> priorities]
               ELSE ApplyUpdates(priorities, userId, updates.items, failAt, 1)
    IN  /\ rev = "server"
        /\ failAt \in {0} \cup Reached(updates)
        /\ priorities' = out.priorities
        /\ reorder' = [userId |-> userId, updates |-> updates,
                       failAt |-> failAt, status |-> out.status]
        /\ UNCHANGED <<rev, graph, last, reqs, up, auth>>

InitReorder ==
    /\ rev = "server"
    /\ graph = EmptyGraph
    /\ last = NoRequest
    /\ reqs = NoRequests
    /\ up = TRUE
    /\ auth = NoAuth
    /\ priorities = NoPriorities
    /\ reorder = NoReorder

NextReorder ==
    \E userId \in Users, updates \in UpdateBodies, failAt \in 0..MaxUpdates :
        ReorderApplications(userId, updates, failAt)

SpecReorder == InitReorder /\ [][NextReorder]_vars

C14Malformed(updates) ==
    /\ updates.kind = "list"
    /\ \E i \in 1..Len(updates.items) : updates.items[i].kind \in {"no_ids", "no_priority"}

\* C14: a reorder request whose updates list holds a malformed entry, at
\* any position, is answered 400 and changes no priority.
C14_MalformedUpdatesChangeNothing ==
    [][C14Malformed(reorder'.updates) =>
           /\ reorder'.status = 400
           /\ priorities' = priorities]_vars

====
